---------------------------- MODULE Spec2Model ----------------------------
(***************************************************************************)
(* The upload-and-generate workflow of src/src/App.tsx: the App            *)
(* component's state (useState cells), its handlers handleFileUpload and   *)
(* generateHeadshots, the FileReader decodes and the two remote calls      *)
(* (blink.storage.upload, blink.ai.modifyImage) that generateHeadshots     *)
(* awaits.  An await is a suspension point: every segment of the async     *)
(* function between two awaits is one action, and what the segment reads   *)
(* after the await is what the closure captured when the function was      *)
(* called.  React renders the state a handler has set before the next      *)
(* event is dispatched, so a step evaluates the button's `disabled` on the *)
(* current state.                                                          *)
(*                                                                         *)
(* Not modelled: the session state (user, loading), which only names the   *)
(* storage key and hides the page while loading, and downloadImage, which  *)
(* changes no state of the component.                                      *)
(***************************************************************************)
EXTENDS Integers, Sequences, FiniteSets

(* ------------------------------ bounds -------------------------------- *)

\* generate() calls that get past the precondition check in one behaviour
MaxCalls == 2
\* longest `data` array the Image Generator answers with
MaxData == 2

(* --------------------------- program constants ------------------------ *)

\* 10 * 1024 * 1024, the size limit of handleFileUpload
MaxFileSize == 10485760

\* n: 4, the variant count requested from the Image Generator
VariantCount == 4

\* null, for a File
Null == "null"

\* The files the user can pick, with file.size: a 2 MB photo, a photo of
\* exactly 10 MiB and one a byte above the limit.
FileSize ==
    [f \in {"a.jpg", "b.png", "c.png"} |->
        CASE f = "a.jpg" -> 2097152
          [] f = "b.png" -> MaxFileSize
          [] OTHER       -> MaxFileSize + 1]

Files == DOMAIN FileSize

\* The catalog of style presets: value and description (labels left out).
headshotStyles ==
    << [value |-> "professional", description |-> "Classic corporate headshot with studio lighting"],
       [value |-> "creative",     description |-> "Modern artistic style with creative backgrounds"],
       [value |-> "corporate",    description |-> "Premium executive portrait with formal attire"],
       [value |-> "casual",       description |-> "Approachable and friendly professional look"],
       [value |-> "tech",         description |-> "Modern tech professional with clean aesthetic"],
       [value |-> "consultant",   description |-> "Confident and trustworthy professional image"] >>

\* The SelectItems the user picks among in the model: two of the six.
Styles == {headshotStyles[1].value, headshotStyles[2].value}

\* headshotStyles.find(s => s.value === selectedStyle)?.description
StyleDescription(s) ==
    LET hits == {i \in DOMAIN headshotStyles : headshotStyles[i].value = s}
    IN  IF hits = {} THEN "undefined"
        ELSE headshotStyles[CHOOSE i \in hits : \A j \in hits : i <= j].description

\* What the external services may answer.
PublicUrls == {"https://store/x.jpg", "https://store/y.jpg"}

\* The i-th result of an answer of the Image Generator: [{url: ...}, ...]
ResultUrl(i) == << "https://gen/result", i >>

\* The `data` arrays the Image Generator may answer with: 0..MaxData results.
Responses == {[i \in 1..n |-> ResultUrl(i)] : n \in 0..MaxData}

\* What a read of the wall clock (Date.now(), new Date()) may return.  Two
\* reads are not ordered: the system clock can be set back between them.
ClockValues == {0, 1}

(* ------------------------------- state -------------------------------- *)

VARIABLES
    uploadedImage,      \* useState<string | null>(null): <<>> is null
    selectedFile,       \* useState<File | null>(null)
    selectedStyle,      \* useState('')
    generatedHeadshots, \* useState<GeneratedHeadshot[]>([])
    isGenerating,       \* useState(false)
    toast,              \* what the last step raised through toast()
    readers,            \* the files a FileReader is still decoding
    calls               \* the generateHeadshots() activations, by call number

vars == << uploadedImage, selectedFile, selectedStyle,
           generatedHeadshots, isGenerating, toast, readers, calls >>

CallIds == 1..MaxCalls

NoToast == [title |-> "", variant |-> "", count |-> 0]

\* A step of the page that calls toast() sets `toast`; any other step
\* leaves no notification of its own.
Quiet == toast' = NoToast

\* toast({title, description, variant}); count is the number in the description
Toast(title, variant, count) == [title |-> title, variant |-> variant, count |-> count]

\* An activation of generateHeadshots: where it is suspended (pc), what its
\* closure captured (file, style), the request it has in flight (key of the
\* upload; images, prompt, quality, n of modifyImage), the local publicUrl,
\* and a record of what it did (before: generatedHeadshots when it was
\* called; the n* counters: the requests it issued, the toasts it raised).
IdleCall ==
    [pc |-> "idle", file |-> Null, style |-> "", key |-> <<>>,
     publicUrl |-> "", images |-> <<>>, prompt |-> "", quality |-> "", n |-> 0,
     before |-> <<>>,
     nUpload |-> 0, nModify |-> 0, nFailed |-> 0, nSuccess |-> 0]

InFlight(c) == calls[c].pc \in {"upload", "modify"}

\* readAsDataURL's result for a file
DataURL(f) == << "data:image;base64", f >>

Init ==
    /\ uploadedImage = <<>>
    /\ selectedFile = Null
    /\ selectedStyle = ""
    /\ generatedHeadshots = <<>>
    /\ isGenerating = FALSE
    /\ toast = NoToast
    /\ readers = {}
    /\ calls = [c \in CallIds |-> IdleCall]

(* ----------------------------- file upload ---------------------------- *)

\* file.size > 10 * 1024 * 1024
TooLarge(f) == FileSize[f] > MaxFileSize

\* handleFileUpload without the `return` after the "File too large" toast:
\* the oversized file is stored and decoded all the same.
handleFileUploadNoReturn(f) ==
    IF f = Null
    THEN /\ Quiet
         /\ UNCHANGED << uploadedImage, selectedFile, selectedStyle,
                         generatedHeadshots, isGenerating, readers, calls >>
    ELSE /\ toast' = IF TooLarge(f) THEN Toast("File too large", "destructive", 0)
                                    ELSE NoToast
         /\ selectedFile' = f
         /\ readers' = readers \cup {f}
         /\ UNCHANGED << uploadedImage, selectedStyle,
                         generatedHeadshots, isGenerating, calls >>

\* handleFileUpload with event.target.files?.[0] = f (Null: no file picked)
handleFileUpload(f) ==
    IF f = Null
    THEN /\ Quiet
         /\ UNCHANGED << uploadedImage, selectedFile, selectedStyle,
                         generatedHeadshots, isGenerating, readers, calls >>
    ELSE IF TooLarge(f)
    THEN /\ toast' = Toast("File too large", "destructive", 0)
         /\ UNCHANGED << uploadedImage, selectedFile, selectedStyle,
                         generatedHeadshots, isGenerating, readers, calls >>
    ELSE /\ selectedFile' = f
         /\ readers' = readers \cup {f}
         /\ Quiet
         /\ UNCHANGED << uploadedImage, selectedStyle,
                         generatedHeadshots, isGenerating, calls >>

\* <Input type="file" onChange={handleFileUpload}>
InputChange ==
    /\ \E f \in Files \cup {Null} : handleFileUpload(f)

\* A reader of f is done.  The same file may have been picked again while
\* it was decoded: then another reader of f is still at work.
ReaderDone(f) == readers' \in {readers \ {f}, readers}

\* reader.onload = (e) => setUploadedImage(e.target?.result)
ReaderLoad ==
    \E f \in readers :
        /\ ReaderDone(f)
        /\ uploadedImage' = DataURL(f)
        /\ Quiet
        /\ UNCHANGED << selectedFile, selectedStyle,
                        generatedHeadshots, isGenerating, calls >>

\* The read fails: the reader has no onerror handler, nothing is set.
ReaderError ==
    \E f \in readers :
        /\ ReaderDone(f)
        /\ Quiet
        /\ UNCHANGED << uploadedImage, selectedFile, selectedStyle,
                        generatedHeadshots, isGenerating, calls >>

(* ---------------------------- style select ---------------------------- *)

\* <Select value={selectedStyle} onValueChange={setSelectedStyle}>
SelectStyle ==
    /\ \E s \in Styles :
        /\ s # selectedStyle
        /\ selectedStyle' = s
    /\ Quiet
    /\ UNCHANGED << uploadedImage, selectedFile,
                    generatedHeadshots, isGenerating, readers, calls >>

(* ------------------------------ generate ------------------------------ *)

\* The precondition check without its second half: !selectedFile alone.
MissingFileOnly == selectedFile = Null

\* !selectedFile || !selectedStyle
MissingRequirements == selectedFile = Null \/ selectedStyle = ""

\* The button's guard without isGenerating.
DisabledWhileMissing == selectedFile = Null \/ selectedStyle = ""

\* disabled={!selectedFile || !selectedStyle || isGenerating}
GenerateDisabled == selectedFile = Null \/ selectedStyle = "" \/ isGenerating

\* The activation a new call of generateHeadshots gets: the lowest unused one.
FreshCall(c) == calls[c].pc = "idle" /\ \A d \in CallIds : d < c => calls[d].pc # "idle"

\* `headshots/original/${user?.id}/${Date.now()}.jpg`
StorageKey(t) == << "headshots/original", "user?.id", t, ".jpg" >>

\* generateHeadshots() up to its first await: the precondition check,
\* setIsGenerating(true) and the blink.storage.upload request.
generateHeadshots ==
    IF MissingRequirements
    THEN /\ toast' = Toast("Missing requirements", "destructive", 0)
         /\ UNCHANGED << uploadedImage, selectedFile, selectedStyle,
                         generatedHeadshots, isGenerating, readers, calls >>
    ELSE /\ \E c \in CallIds, t \in ClockValues :
              /\ FreshCall(c)
              /\ calls' = [calls EXCEPT ![c] =
                              [IdleCall EXCEPT !.pc = "upload",
                                               !.file = selectedFile,
                                               !.style = selectedStyle,
                                               !.key = StorageKey(t),
                                               !.before = generatedHeadshots,
                                               !.nUpload = 1]]
         /\ isGenerating' = TRUE
         /\ Quiet
         /\ UNCHANGED << uploadedImage, selectedFile, selectedStyle,
                         generatedHeadshots, readers >>

\* <Button onClick={generateHeadshots} disabled={...}>
ClickGenerate ==
    /\ ~GenerateDisabled
    /\ generateHeadshots

\* generateHeadshots called as a function, whatever the button shows, by a
\* caller that waits for the call before it to return.
CallGenerate ==
    /\ ~isGenerating
    /\ generateHeadshots

\* What an activation keeps once the function has returned: the toasts it
\* raised.  Its requests are settled, none is in flight.
Returned(r, failed, success) ==
    [IdleCall EXCEPT !.pc = "returned",
                     !.nFailed = r.nFailed + failed,
                     !.nSuccess = r.nSuccess + success]

\* images: [the storage path], not the URL the upload resolved with
RequestImagesPath(url) == << "headshots/original/photo.jpg" >>

\* images: [publicUrl]
RequestImages(url) == << url >>

\* No finally block: the flag is left as it is.
NoFinally == UNCHANGED isGenerating

\* finally { setIsGenerating(false) }
Finally == isGenerating' = FALSE

\* A catch block that only logs: console.error, no toast.
CatchSilent(c) ==
    /\ Quiet
    /\ calls' = [calls EXCEPT ![c] = Returned(@, 0, 0)]

\* catch (error) { toast({title: "Generation failed", ...}) } and the return
Catch(c) ==
    /\ toast' = Toast("Generation failed", "destructive", 0)
    /\ calls' = [calls EXCEPT ![c] = Returned(@, 1, 0)]

\* The upload resolves with publicUrl = url: the blink.ai.modifyImage request.
UploadResolve(c, url) ==
    /\ calls[c].pc = "upload"
    /\ calls' = [calls EXCEPT ![c] =
                    [@ EXCEPT !.pc = "modify", !.key = <<>>,
                              !.publicUrl = url,
                              !.images = RequestImages(url),
                              !.prompt = StyleDescription(calls[c].style),
                              !.quality = "hd",
                              !.n = VariantCount,
                              !.nModify = @ + 1]]
    /\ Quiet
    /\ UNCHANGED << uploadedImage, selectedFile, selectedStyle,
                    generatedHeadshots, isGenerating, readers >>

\* The upload rejects: catch, finally.
UploadReject(c) ==
    /\ calls[c].pc = "upload"
    /\ Catch(c)
    /\ Finally
    /\ UNCHANGED << uploadedImage, selectedFile, selectedStyle,
                    generatedHeadshots, readers >>

\* style: selectedStyle, as the closure of the call captured it
EntryStyle(c) == calls[c].style

\* data.map((result, index) => ({id, url, style, createdAt})), the clock
\* reading t: the map runs in one synchronous pass, and the index alone
\* tells the entries of a batch apart.
newHeadshots(c, data, t) ==
    [i \in 1..Len(data) |->
        [id |-> << t, i - 1 >>,
         url |-> data[i],
         style |-> EntryStyle(c),
         createdAt |-> t]]

\* setGeneratedHeadshots(newHeadshots): the batch replaces the results
Overwrite(new, prev) == new

\* prev => [...newHeadshots, ...prev]
Prepend(new, prev) == new \o prev

\* modifyImage resolves with the array `data`: the batch is built and
\* prepended, the success toast raised; finally.
ModifyResolve(c, data, t) ==
    /\ calls[c].pc = "modify"
    /\ generatedHeadshots' = Prepend(newHeadshots(c, data, t), generatedHeadshots)
    /\ toast' = Toast("Success!", "default", Len(data))
    /\ calls' = [calls EXCEPT ![c] = Returned(@, 0, 1)]
    /\ Finally
    /\ UNCHANGED << uploadedImage, selectedFile, selectedStyle,
                    readers >>

\* modifyImage resolves without an array in `data`: data.map throws inside
\* the try; catch, finally.
ModifyMalformed(c) ==
    /\ calls[c].pc = "modify"
    /\ Catch(c)
    /\ Finally
    /\ UNCHANGED << uploadedImage, selectedFile, selectedStyle,
                    generatedHeadshots, readers >>

\* modifyImage rejects: catch, finally.
ModifyReject(c) ==
    /\ calls[c].pc = "modify"
    /\ Catch(c)
    /\ Finally
    /\ UNCHANGED << uploadedImage, selectedFile, selectedStyle,
                    generatedHeadshots, readers >>

\* blink.storage.upload settles
UploadSettles ==
    \E c \in CallIds :
        \/ \E url \in PublicUrls : UploadResolve(c, url)
        \/ UploadReject(c)

\* blink.ai.modifyImage settles
ModifySettles ==
    \E c \in CallIds :
        \/ \E data \in Responses, t \in ClockValues : ModifyResolve(c, data, t)
        \/ ModifyMalformed(c)
        \/ ModifyReject(c)

(* --------------------------- specifications --------------------------- *)

\* What happens without the user: the decodes and the services.
Environment ==
    \/ ReaderLoad
    \/ ReaderError
    \/ UploadSettles
    \/ ModifySettles

\* The page as the user drives it.
Next ==
    \/ InputChange
    \/ SelectStyle
    \/ ClickGenerate
    \/ Environment

Spec == Init /\ [][Next]_vars

\* The generate workflow alone: the FileReader events, which read and write
\* only uploadedImage and readers, are left to Spec.
Workflow ==
    \/ InputChange
    \/ SelectStyle
    \/ ClickGenerate
    \/ UploadSettles
    \/ ModifySettles

\* Each remote call eventually resolves or rejects.
FairSpec ==
    /\ Init
    /\ [][Workflow]_vars
    /\ WF_vars(UploadSettles)
    /\ WF_vars(ModifySettles)

\* The handlers called as functions: generateHeadshots without its button.
NextCall ==
    \/ InputChange
    \/ SelectStyle
    \/ CallGenerate
    \/ Environment

CallSpec == Init /\ [][NextCall]_vars

(* ------------------------------- claims ------------------------------- *)

TooLargeToast == Toast("File too large", "destructive", 0)
MissingToast == Toast("Missing requirements", "destructive", 0)
FailedToast == Toast("Generation failed", "destructive", 0)

ActiveCalls == {c \in CallIds : InFlight(c)}

\* The step in which activation c returns.
Returns(c) == InFlight(c) /\ calls'[c].pc = "returned"

\* C1: handleFileUpload of a file of more than 10 MiB, in any state, leaves
\* selectedFile (and every other state cell) as it was, starts no decode,
\* issues no remote call and raises the "File too large" toast.
C1_OversizedRejected ==
    [][\A f \in Files :
          (FileSize[f] > 10 * 1024 * 1024 /\ handleFileUpload(f)) =>
              /\ selectedFile' = selectedFile
              /\ toast' = TooLargeToast
              /\ calls' = calls
              /\ UNCHANGED << uploadedImage, selectedStyle, generatedHeadshots,
                              isGenerating, readers >>]_vars

\* An oversized file was just rejected while a file was selected and a
\* generation in flight.
C1_Witness ==
    /\ toast = TooLargeToast
    /\ selectedFile = "b.png"
    /\ ActiveCalls # {}

\* C2: generateHeadshots called without a file or without a style issues no
\* remote call, leaves isGenerating, the results, the file and the style as
\* they were and raises the "Missing requirements" toast.
C2_MissingRequirementsNoCall ==
    [][((selectedFile = Null \/ selectedStyle = "") /\ generateHeadshots) =>
          /\ calls' = calls
          /\ toast' = MissingToast
          /\ UNCHANGED << isGenerating, generatedHeadshots, selectedFile,
                          selectedStyle >>]_vars

\* generateHeadshots was just called with a file but no style.
C2_Witness ==
    /\ toast = MissingToast
    /\ selectedFile # Null
    /\ selectedStyle = ""
    /\ \A c \in CallIds : calls[c].pc = "idle"

\* C3 as stated: when modifyImage resolves with N results, the results
\* become N new entries, in the order returned, before the results as they
\* were, each new entry tagged with the style selected at that moment.
C3_TaggedWithCurrentStyle ==
    [][\A c \in CallIds, data \in Responses, t \in ClockValues :
          ModifyResolve(c, data, t) =>
              /\ Len(generatedHeadshots') = Len(data) + Len(generatedHeadshots)
              /\ \A i \in 1..Len(data) :
                    /\ generatedHeadshots'[i].url = data[i]
                    /\ generatedHeadshots'[i].style = selectedStyle
              /\ \A j \in 1..Len(generatedHeadshots) :
                    generatedHeadshots'[Len(data) + j] = generatedHeadshots[j]]_vars

\* C3 as amended: the same, each new entry tagged with the style that was
\* selected when its generateHeadshots call was made.
C3_TaggedWithCallStyle ==
    [][\A c \in CallIds, data \in Responses, t \in ClockValues :
          ModifyResolve(c, data, t) =>
              /\ Len(generatedHeadshots') = Len(data) + Len(generatedHeadshots)
              /\ \A i \in 1..Len(data) :
                    /\ generatedHeadshots'[i].url = data[i]
                    /\ generatedHeadshots'[i].style = calls[c].style
              /\ \A j \in 1..Len(generatedHeadshots) :
                    generatedHeadshots'[Len(data) + j] = generatedHeadshots[j]]_vars

\* A batch of two was just prepended to the batch of an earlier call, after
\* the user had changed the style while the generation was in flight.
C3_Witness ==
    /\ toast = Toast("Success!", "default", 2)
    /\ Len(generatedHeadshots) > 2
    /\ generatedHeadshots[1].style # selectedStyle
    /\ \A c \in CallIds : calls[c].pc = "returned" /\ calls[c].nSuccess = 1

\* C4: whenever isGenerating is true it becomes false again, given that
\* each remote call settles; and the step in which a generateHeadshots
\* call returns, on whatever path, leaves isGenerating false.
C4_GuaranteedRelease ==
    /\ isGenerating ~> ~isGenerating
    /\ [][\A c \in CallIds : Returns(c) => ~isGenerating']_vars

\* A call has returned through its catch block and the flag is down.
C4_Witness ==
    /\ ~isGenerating
    /\ \E c \in CallIds : calls[c].pc = "returned" /\ calls[c].nFailed = 1

\* C5: a generateHeadshots call that returns without success (the upload
\* or modifyImage rejected) leaves the results as they were when it was
\* called and isGenerating false, has raised one "Generation failed" toast
\* and no success toast, and no call ever issues a second upload or a
\* second modifyImage request.
C5_AllOrNothing ==
    /\ [][\A c \in CallIds :
            (Returns(c) /\ calls'[c].nSuccess = 0) =>
                /\ generatedHeadshots' = calls[c].before
                /\ generatedHeadshots' = generatedHeadshots
                /\ ~isGenerating'
                /\ toast' = FailedToast
                /\ calls'[c].nFailed = 1]_vars
    /\ [](\A c \in CallIds : calls[c].nUpload <= 1 /\ calls[c].nModify <= 1)

\* modifyImage has just rejected for the second call; the batch of the
\* first call is all there is.
C5_Witness ==
    /\ toast = FailedToast
    /\ ~isGenerating
    /\ Len(generatedHeadshots) = 2
    /\ calls[1].nSuccess = 1
    /\ calls[2].pc = "returned" /\ calls[2].nFailed = 1

\* C6: when modifyImage resolves with zero results the call is reported as
\* a failure: the "Generation failed" toast, the results as they were.
C6_ZeroResultsIsFailure ==
    [][\A c \in CallIds, t \in ClockValues :
          ModifyResolve(c, << >>, t) =>
              /\ toast' = FailedToast
              /\ generatedHeadshots' = generatedHeadshots]_vars

\* C7: at most one generateHeadshots call is in flight, and isGenerating
\* is true exactly while one is.
C7_SingleFlight ==
    /\ Cardinality(ActiveCalls) <= 1
    /\ isGenerating <=> ActiveCalls # {}

\* The second call is in flight, the first has returned, and the user has
\* changed file and style since the click.
C7_Witness ==
    /\ calls[1].pc = "returned"
    /\ calls[2].pc = "modify"
    /\ selectedStyle # calls[2].style
    /\ selectedFile # calls[2].file

\* C8: the ids of the results are pairwise distinct.
C8_UniqueIds ==
    \A i, j \in 1..Len(generatedHeadshots) :
        i # j => generatedHeadshots[i].id # generatedHeadshots[j].id

\* C9: a call issues at most one upload and one modifyImage request, the
\* modifyImage request only once its upload has resolved, with exactly the
\* URL the upload resolved with as its images.
C9_UploadThenModify ==
    \A c \in CallIds :
        /\ calls[c].nUpload <= 1
        /\ calls[c].nModify <= 1
        /\ calls[c].pc = "upload" =>
              calls[c].nUpload = 1 /\ calls[c].nModify = 0 /\ calls[c].images = << >>
        /\ calls[c].pc = "modify" =>
              /\ calls[c].nUpload = 1 /\ calls[c].nModify = 1
              /\ calls[c].publicUrl \in PublicUrls
              /\ calls[c].images = << calls[c].publicUrl >>
        /\ calls[c].pc \in {"idle", "returned"} =>
              calls[c].images = << >> /\ calls[c].key = << >>

\* modifyImage is in flight for the second call, on the second URL.
C9_Witness ==
    /\ calls[1].pc = "returned"
    /\ calls[2].pc = "modify"
    /\ calls[2].publicUrl = "https://store/y.jpg"

\* C10: when no decode is pending, the preview, if there is one, is the
\* decoding of the selected file.
C10_PreviewConsistent ==
    (readers = {} /\ uploadedImage # << >>) => uploadedImage = DataURL(selectedFile)

=============================================================================
